---- MODULE Spec2Model ----
(***************************************************************************)
(* Mock Snowflake API: the in-memory job registry (_JOB_STORE), the        *)
(* wall-clock driven phase machine and the data-quality rules of           *)
(* app/service.py, behind the two HTTP handlers of app/main.py.            *)
(*                                                                         *)
(* Encoding.  A Python Optional is a sequence of length at most one:       *)
(* None is <<>> and a present value v is <<v>>.  A row (a Python dict) is  *)
(* a function from the set of its keys to JSON values, and a JSON value is *)
(* an Optional too (JSON null is None).  Strings are TLA+ strings, built   *)
(* by concatenation as the code's f-strings build them.  Time is counted   *)
(* in whole seconds and the clock read by time.time() never runs back.     *)
(***************************************************************************)
EXTENDS Integers, Sequences, FiniteSets, TLC

VARIABLES
    _JOB_STORE,   \* service.py:13, job_id -> [start_time, command]
    now,          \* the value time.time() returns
    ack,          \* the body of the last 202 response of trigger_load
    resp,         \* the last response of monitor_job
    mark,         \* history: an earlier 200 response of monitor_job
    submitted     \* history: the calls of submit_job that returned, in order

vars == <<_JOB_STORE, now, ack, resp, mark, submitted>>

\* ------------------------------------------------------------------ bounds
MaxTime == 9      \* the clock stops advancing here
MaxRows == 3      \* longest row sequence of a command

\* ------------------------------------------------------------- Optional
None == <<>>
Some(x) == <<x>>

\* ---------------------------------------------------------------- inputs
\* The identifiers uuid.uuid4() can return.
JobIds == {"uuid-1", "uuid-2"}

\* Field names of a row, in the order Python's sorted() gives them.
FieldOrder == <<"amount", "id", "name">>
Fields == {FieldOrder[i] : i \in 1..Len(FieldOrder)}

\* JSON values a field can carry; None is JSON null.
IdValues == {None, Some(1)}
NameValues == {Some("a")}
AmountValues == {Some(100)}

\* The dict with the keys S, holding the given value under each key present.
Dict(S, id, name, amount) ==
    [f \in S |-> IF f = "id" THEN id ELSE IF f = "name" THEN name ELSE amount]

\* Every dict over Fields: any subset of keys, each with one of its values.
Rows == {Dict(S, id, name, amount) :
            S \in SUBSET Fields, id \in IdValues,
            name \in NameValues, amount \in AmountValues}

RowSeqs == UNION {[1..n -> Rows] : n \in 1..MaxRows}

LoadMode == {"APPEND", "OVERWRITE"}
TableNames == {"RAW_TRANSACTIONS", "RAW_EVENTS"}

\* CopyCommand: rows has min_length 1, load_mode is required.
CopyCommand == [table_name : TableNames, load_mode : LoadMode, rows : RowSeqs]

\* The payloads the clients of the state machine submit: a clean one, one
\* without id, one whose second row drops a field, and one that breaks both
\* rules, the schema first.
ClientCommands ==
    { [table_name |-> "RAW_TRANSACTIONS", load_mode |-> "APPEND",
       rows |-> <<Dict({"id", "name"}, Some(1), Some("a"), None),
                  Dict({"id", "name"}, Some(1), Some("a"), None)>>],
      [table_name |-> "RAW_EVENTS", load_mode |-> "OVERWRITE",
       rows |-> <<Dict({"name"}, None, Some("a"), None)>>],
      [table_name |-> "RAW_TRANSACTIONS", load_mode |-> "OVERWRITE",
       rows |-> <<Dict({"id", "name"}, Some(1), Some("a"), None),
                  Dict({"id"}, Some(1), None, None)>>],
      [table_name |-> "RAW_EVENTS", load_mode |-> "APPEND",
       rows |-> <<Dict({"id", "name"}, Some(1), Some("a"), None),
                  Dict({"id", "amount"}, Some(1), None, Some(100)),
                  Dict({"id", "name"}, None, Some("a"), None)>>] }

\* ------------------------------------------------------------ enumeration
JobStatusEnum == {"QUEUED", "RESUMING_WAREHOUSE", "EXECUTING", "SUCCESS", "FAILED"}

\* The status codes the client-side schema of the test suite accepts
\* (tests/schemas/snowflake.py, JobStatusEnum).
ClientJobStatusEnum == {"QUEUED", "RUNNING", "SUCCESS", "FAILED"}

\* Whether a status body validates against the client-side JobStatus: job_id
\* and message are strings, status is a member of its enumeration,
\* rows_loaded and error_details are optional.
ClientJobStatusValid(body) ==
    /\ body.job_id \in STRING
    /\ body.status \in ClientJobStatusEnum
    /\ body.message \in STRING
    /\ body.error_details # None =>
           /\ body.error_details[1].error_code \in STRING
           /\ body.error_details[1].error_message \in STRING

\* ------------------------------------------------------------- formatting
\* str(idx) for the indices a row sequence can have.
Str(n) == ToString(n)

\* sorted(keys): the members of keys in lexicographic order.
RECURSIVE SortedFrom(_, _)
SortedFrom(keys, i) ==
    IF i > Len(FieldOrder) THEN <<>>
    ELSE IF FieldOrder[i] \in keys
         THEN <<FieldOrder[i]>> \o SortedFrom(keys, i + 1)
         ELSE SortedFrom(keys, i + 1)

sorted(keys) == SortedFrom(keys, 1)

\* sep.join(parts)
RECURSIVE join(_, _)
join(sep, parts) ==
    IF parts = <<>> THEN ""
    ELSE IF Len(parts) = 1 THEN parts[1]
    ELSE parts[1] \o sep \o join(sep, Tail(parts))

\* repr of a list of strings: ['amount', 'name']
Quote(s) == "'" \o s \o "'"
ListRepr(names) ==
    "[" \o join(", ", [i \in 1..Len(names) |-> Quote(names[i])]) \o "]"

\* ---------------------------------------------------- data-quality rules
\* Mutant: only the first row is looked at.
NotNullViolation_FirstRow(rows) ==
    "id" \notin DOMAIN rows[1] \/ rows[1]["id"] = None

\* Rule 1 (service.py:69): some row lacks id or carries a null id.
NotNullViolation(rows) ==
    \E i \in 1..Len(rows) : "id" \notin DOMAIN rows[i] \/ rows[i]["id"] = None

\* Mutant: a failure reports zero rows loaded.
NotNullFailure_ZeroRows(job_id_str) ==
    [job_id |-> job_id_str,
     status |-> "FAILED",
     rows_loaded |-> Some(0),
     error_details |-> Some([error_code |-> "NOT_NULL_VIOLATION",
                             error_message |-> "Column 'id' is missing."]),
     message |-> "Data Quality Failure"]

NotNullFailure(job_id_str) ==
    [job_id |-> job_id_str,
     status |-> "FAILED",
     rows_loaded |-> None,
     error_details |-> Some([error_code |-> "NOT_NULL_VIOLATION",
                             error_message |-> "Column 'id' is missing."]),
     message |-> "Data Quality Failure"]

\* error_parts of service.py:89-93
ErrorParts(missing_keys, extra_keys) ==
    (IF missing_keys # {}
        THEN <<"missing fields: " \o ListRepr(sorted(missing_keys))>> ELSE <<>>)
    \o
    (IF extra_keys # {}
        THEN <<"extra fields: " \o ListRepr(sorted(extra_keys))>> ELSE <<>>)

SchemaFailure(job_id_str, idx, first_row_keys, row_keys) ==
    LET missing_keys == first_row_keys \ row_keys
        extra_keys == row_keys \ first_row_keys
        error_parts == ErrorParts(missing_keys, extra_keys)
    IN [job_id |-> job_id_str,
        status |-> "FAILED",
        rows_loaded |-> None,
        error_details |-> Some([error_code |-> "SCHEMA_MISMATCH",
                                error_message |->
                                    "Row at index " \o Str(idx)
                                    \o " has schema mismatch: "
                                    \o join(", ", error_parts)]),
        message |-> "Data Quality Failure"]

\* Whether the scan of rows[1:] stops at Python index idx (0-based; the row
\* is rows[idx + 1] here, sequences being 1-based).
Mismatch(row_keys, first_row_keys) == row_keys # first_row_keys

\* Mutant: the loop does not return at the first mismatch, the last one found
\* is reported.
RECURSIVE SchemaScan_Last(_, _, _, _)
SchemaScan_Last(job_id_str, rows, first_row_keys, idx) ==
    IF idx >= Len(rows) THEN None
    ELSE LET row_keys == DOMAIN rows[idx + 1]
             later == SchemaScan_Last(job_id_str, rows, first_row_keys, idx + 1)
         IN IF later # None THEN later
            ELSE IF row_keys # first_row_keys
            THEN Some(SchemaFailure(job_id_str, idx, first_row_keys, row_keys))
            ELSE None

\* Rule 2 (service.py:84-103): the loop over enumerate(rows[1:], start=1);
\* None when the loop runs out without returning.
RECURSIVE SchemaScan(_, _, _, _)
SchemaScan(job_id_str, rows, first_row_keys, idx) ==
    IF idx >= Len(rows) THEN None
    ELSE LET row_keys == DOMAIN rows[idx + 1]
         IN IF Mismatch(row_keys, first_row_keys)
            THEN Some(SchemaFailure(job_id_str, idx, first_row_keys, row_keys))
            ELSE SchemaScan(job_id_str, rows, first_row_keys, idx + 1)

SchemaValidation(job_id_str, rows) ==
    IF rows # <<>>
    THEN SchemaScan(job_id_str, rows, DOMAIN rows[1], 1)
    ELSE None

\* Mutant: the rows after the first are counted, as the schema loop does.
Success_Tail(job_id_str, rows) ==
    [job_id |-> job_id_str,
     status |-> "SUCCESS",
     rows_loaded |-> Some(Len(Tail(rows))),
     error_details |-> None,
     message |-> "Load success"]

\* Rule 3 (service.py:106-112)
Success(job_id_str, rows) ==
    [job_id |-> job_id_str,
     status |-> "SUCCESS",
     rows_loaded |-> Some(Len(rows)),
     error_details |-> None,
     message |-> "Load success"]

\* Mutant: the schema is validated before the not-null rule.
DQLogic_SchemaFirst(job_id_str, rows) ==
    LET failure == SchemaValidation(job_id_str, rows)
    IN IF failure # None THEN failure[1]
       ELSE IF NotNullViolation(rows) THEN NotNullFailure(job_id_str)
       ELSE Success(job_id_str, rows)

\* The final state, 8 seconds and later (service.py:67-112).
DQLogic(job_id_str, rows) ==
    IF NotNullViolation(rows) THEN NotNullFailure(job_id_str)
    ELSE LET failure == SchemaValidation(job_id_str, rows)
         IN IF failure # None THEN failure[1]
            ELSE Success(job_id_str, rows)

\* ------------------------------------------------------- time simulation
Transient(job_id_str, status, message) ==
    [job_id |-> job_id_str,
     status |-> status,
     rows_loaded |-> None,
     error_details |-> None,
     message |-> message]

\* Mutant: the two middle phases in the wrong order.
TimeSimulation_Swapped(job_id_str, elapsed) ==
    IF elapsed < 2
    THEN Some(Transient(job_id_str, "QUEUED", "Job submitted successfully"))
    ELSE IF elapsed < 5
    THEN Some(Transient(job_id_str, "EXECUTING", "Running query"))
    ELSE IF elapsed < 8
    THEN Some(Transient(job_id_str, "RESUMING_WAREHOUSE", "Waking up warehouse"))
    ELSE None

\* Mutant: the thresholds compared with <= instead of <.
TimeSimulation_Inclusive(job_id_str, elapsed) ==
    IF elapsed <= 2
    THEN Some(Transient(job_id_str, "QUEUED", "Job submitted successfully"))
    ELSE IF elapsed <= 5
    THEN Some(Transient(job_id_str, "RESUMING_WAREHOUSE", "Waking up warehouse"))
    ELSE IF elapsed <= 8
    THEN Some(Transient(job_id_str, "EXECUTING", "Running query"))
    ELSE None

\* Mutant: the final state is taken at 8 seconds exactly; later the first
\* branch answers again.
TimeSimulation_Window(job_id_str, elapsed) ==
    IF elapsed < 2 \/ elapsed > 8
    THEN Some(Transient(job_id_str, "QUEUED", "Job submitted successfully"))
    ELSE IF elapsed < 5
    THEN Some(Transient(job_id_str, "RESUMING_WAREHOUSE", "Waking up warehouse"))
    ELSE IF elapsed < 8
    THEN Some(Transient(job_id_str, "EXECUTING", "Running query"))
    ELSE None

\* Mutant: the last branch has no condition, the final state is never taken.
TimeSimulation_Stuck(job_id_str, elapsed) ==
    IF elapsed < 2
    THEN Some(Transient(job_id_str, "QUEUED", "Job submitted successfully"))
    ELSE IF elapsed < 5
    THEN Some(Transient(job_id_str, "RESUMING_WAREHOUSE", "Waking up warehouse"))
    ELSE Some(Transient(job_id_str, "EXECUTING", "Running query"))

\* service.py:41-65; None when elapsed has passed every threshold.
TimeSimulation(job_id_str, elapsed) ==
    IF elapsed < 2
    THEN Some(Transient(job_id_str, "QUEUED", "Job submitted successfully"))
    ELSE IF elapsed < 5
    THEN Some(Transient(job_id_str, "RESUMING_WAREHOUSE", "Waking up warehouse"))
    ELSE IF elapsed < 8
    THEN Some(Transient(job_id_str, "EXECUTING", "Running query"))
    ELSE None

\* service.py:37
Elapsed(job) == now - job.start_time

\* Mutant: a payload without id fails as soon as the warehouse is up, before
\* the 8 seconds are over.
get_job_status_FailFast(job_id) ==
    IF job_id \notin DOMAIN _JOB_STORE THEN None
    ELSE LET job == _JOB_STORE[job_id]
             elapsed == Elapsed(job)
             rows == job.command.rows
             transient == TimeSimulation(job_id, elapsed)
         IN IF transient # None /\ ~(elapsed >= 5 /\ NotNullViolation(rows))
            THEN transient
            ELSE Some(DQLogic(job_id, rows))

\* service.py:26-112: Optional[Dict]
get_job_status(job_id) ==
    IF job_id \notin DOMAIN _JOB_STORE THEN None
    ELSE LET job == _JOB_STORE[job_id]
             elapsed == Elapsed(job)
             rows == job.command.rows
             transient == TimeSimulation(job_id, elapsed)
         IN IF transient # None THEN transient
            ELSE Some(DQLogic(job_id, rows))

\* ------------------------------------------------------------ operations
\* Mutant: the generator can repeat an identifier.
uuid4_Repeating == JobIds

\* uuid.uuid4(): an identifier no record is stored under.
uuid4 == JobIds \ DOMAIN _JOB_STORE

\* Mutant: the records share one command object, the last one submitted.
submit_job_SharedCommand(job_id, command) ==
    _JOB_STORE' = [k \in DOMAIN _JOB_STORE \cup {job_id} |->
                      IF k = job_id
                      THEN [start_time |-> now, command |-> command]
                      ELSE [_JOB_STORE[k] EXCEPT !.command = command]]

\* Mutant: the registry is bound anew to a dict holding the new record only.
submit_job_Rebinding(job_id, command) ==
    _JOB_STORE' = [k \in {job_id} |-> [start_time |-> now, command |-> command]]

\* service.py:16-23
submit_job(job_id, command) ==
    _JOB_STORE' = [k \in DOMAIN _JOB_STORE \cup {job_id} |->
                      IF k = job_id
                      THEN [start_time |-> now, command |-> command]
                      ELSE _JOB_STORE[k]]

\* Mutant: the acknowledgement carries an identifier of its own, not the one
\* submit_job returned.
trigger_load_OwnId(command) ==
    \E job_id \in uuid4, shown \in JobIds :
        /\ submit_job(job_id, command)
        /\ ack' = Some([job_id |-> shown,
                        status |-> "QUEUED",
                        message |-> "Job submitted successfully"])
        /\ submitted' = Append(submitted, [job_id |-> job_id,
                                           start_time |-> now,
                                           command |-> command])
        /\ UNCHANGED <<now, resp, mark>>

\* main.py:26-39, POST /snowflake/copy-into
trigger_load(command) ==
    \E job_id \in uuid4 :
        /\ submit_job(job_id, command)
        /\ ack' = Some([job_id |-> job_id,
                        status |-> "QUEUED",
                        message |-> "Job submitted successfully"])
        /\ submitted' = Append(submitted, [job_id |-> job_id,
                                           start_time |-> now,
                                           command |-> command])
        /\ UNCHANGED <<now, resp, mark>>

\* Mutant: a status without rows_loaded is taken for no status.
MonitorResponse_NoRowsIsNotFound(job_id, status_data) ==
    IF status_data = None \/ status_data[1].rows_loaded = None
    THEN [status_code |-> 404, detail |-> "Job ID not found"]
    ELSE [status_code |-> 200, body |-> status_data[1],
          path_job_id |-> job_id, elapsed |-> Elapsed(_JOB_STORE[job_id])]

\* The response monitor_job sends for what get_job_status returned; the
\* identifier of the request path and the elapsed time of the query are kept
\* beside the body of a 200 as history.
MonitorResponse(job_id, status_data) ==
    IF status_data = None
    THEN [status_code |-> 404, detail |-> "Job ID not found"]
    ELSE [status_code |-> 200, body |-> status_data[1],
          path_job_id |-> job_id, elapsed |-> Elapsed(_JOB_STORE[job_id])]

\* Mutant: the verdict of a finished job is kept in its record.
monitor_job_Caching(job_id) ==
    LET status_data == get_job_status(job_id)
    IN /\ resp' = Some(MonitorResponse(job_id, status_data))
       /\ \E keep \in BOOLEAN :
             mark' = IF keep /\ resp # None /\ resp[1].status_code = 200
                     THEN resp ELSE mark
       /\ _JOB_STORE' =
              IF status_data # None /\ status_data[1].status \in {"SUCCESS", "FAILED"}
              THEN [_JOB_STORE EXCEPT ![job_id] =
                       [start_time |-> _JOB_STORE[job_id].start_time,
                        command |-> _JOB_STORE[job_id].command,
                        status |-> status_data[1].status]]
              ELSE _JOB_STORE
       /\ UNCHANGED <<now, ack, submitted>>

\* main.py:42-53, GET /snowflake/monitor/{job_id}
monitor_job(job_id) ==
    /\ resp' = Some(MonitorResponse(job_id, get_job_status(job_id)))
    /\ \E keep \in BOOLEAN :
          mark' = IF keep /\ resp # None /\ resp[1].status_code = 200
                  THEN resp ELSE mark
    /\ UNCHANGED <<_JOB_STORE, now, ack, submitted>>

\* A second passes.
Tick ==
    /\ now < MaxTime
    /\ now' = now + 1
    /\ UNCHANGED <<_JOB_STORE, ack, resp, mark, submitted>>

\* --------------------------------------------------------- specifications
Init ==
    /\ _JOB_STORE = <<>>
    /\ now = 0
    /\ ack = None
    /\ resp = None
    /\ mark = None
    /\ submitted = <<>>

Next ==
    \/ \E command \in ClientCommands : trigger_load(command)
    \/ \E job_id \in JobIds : monitor_job(job_id)
    \/ Tick

Spec == Init /\ [][Next]_vars

\* A status query whose response is not kept in the history variable mark.
poll(job_id) == monitor_job(job_id) /\ mark' = mark

NextLive ==
    \/ \E command \in ClientCommands : trigger_load(command)
    \/ \E job_id \in JobIds : poll(job_id)
    \/ Tick

\* The clock keeps advancing (up to MaxTime) and every identifier keeps being
\* polled.
SpecLive ==
    /\ Init
    /\ [][NextLive]_vars
    /\ WF_vars(Tick)
    /\ \A job_id \in JobIds : WF_vars(poll(job_id))

\* Status derivation alone: one stored job with any command of CopyCommand,
\* queried at any elapsed time.
InitDerive ==
    /\ \E command \in CopyCommand :
          /\ _JOB_STORE = [k \in {"uuid-1"} |-> [start_time |-> 0, command |-> command]]
          /\ submitted = <<[job_id |-> "uuid-1", start_time |-> 0, command |-> command]>>
    /\ now \in 0..MaxTime
    /\ ack = None
    /\ resp = None
    /\ mark = None

NextDerive == \E job_id \in DOMAIN _JOB_STORE : monitor_job(job_id)

SpecDerive == InitDerive /\ [][NextDerive]_vars

\* ------------------------------------------------------------ properties
\* A 200 response of monitor_job.
Ok(r) == r # None /\ r[1].status_code = 200

\* mark and resp are two 200 responses for the same job, mark the earlier.
SameJobTwice == Ok(mark) /\ Ok(resp) /\ mark[1].path_job_id = resp[1].path_job_id

\* The fixed ordering QUEUED < RESUMING_WAREHOUSE < EXECUTING < terminal.
PhaseRank(status) ==
    CASE status = "QUEUED" -> 0
      [] status = "RESUMING_WAREHOUSE" -> 1
      [] status = "EXECUTING" -> 2
      [] status \in {"SUCCESS", "FAILED"} -> 3

Terminal(status) == status \in {"SUCCESS", "FAILED"}

\* C1: of two status responses for one job, the one taken at the larger
\* elapsed time reports a phase at least as far along as the other's in
\* QUEUED < RESUMING_WAREHOUSE < EXECUTING < terminal.
C1_PhaseNeverRegresses ==
    (SameJobTwice /\ mark[1].elapsed < resp[1].elapsed)
        => PhaseRank(mark[1].body.status) <= PhaseRank(resp[1].body.status)

C1_Witness ==
    /\ SameJobTwice
    /\ mark[1].elapsed < resp[1].elapsed
    /\ mark[1].body.status = "EXECUTING"
    /\ Terminal(resp[1].body.status)

\* The phase table of the status deriver, by whole seconds of elapsed time.
PhaseTable ==
    <<"QUEUED", "QUEUED",
      "RESUMING_WAREHOUSE", "RESUMING_WAREHOUSE", "RESUMING_WAREHOUSE",
      "EXECUTING", "EXECUTING", "EXECUTING">>

\* C2: elapsed in [0,2) reports QUEUED, [2,5) RESUMING_WAREHOUSE, [5,8)
\* EXECUTING and 8 or more a terminal status, the lower bounds included.
C2_PhaseByElapsed ==
    Ok(resp) =>
        LET e == resp[1].elapsed
            status == resp[1].body.status
        IN /\ e >= 0
           /\ e < 8 => status = PhaseTable[e + 1]
           /\ e >= 8 => Terminal(status)
           /\ e = 2 => status = "RESUMING_WAREHOUSE"
           /\ e = 5 => status = "EXECUTING"

C2_Witness ==
    /\ Ok(resp) /\ resp[1].elapsed = 8 /\ Terminal(resp[1].body.status)
    /\ Ok(mark) /\ mark[1].elapsed = 5 /\ mark[1].body.status = "EXECUTING"

\* ------------------------------------------- properties of the final state
\* The command of the job a 200 response is about.
RowsOf(r) == _JOB_STORE[r[1].path_job_id].command.rows

\* Row i (1-based) has a present, non-null id.
HasId(row) == "id" \in DOMAIN row /\ row["id"] # None

\* Python indices (0-based) of the rows whose field-name set differs from
\* row 0's.
MismatchingIndices(rows) ==
    {i \in 1..(Len(rows) - 1) : DOMAIN rows[i + 1] # DOMAIN rows[1]}

Min(S) == CHOOSE x \in S : \A y \in S : x <= y

\* A 200 response taken 8 seconds or more after submission.
Final(r) == Ok(r) /\ r[1].elapsed >= 8

\* C3: at 8 seconds or more, a command with a row that lacks id or has a
\* null id, at any position, is FAILED with NOT_NULL_VIOLATION, the fixed
\* message naming column 'id', and no rows_loaded.
C3_NotNullViolation ==
    (Final(resp) /\ \E i \in 1..Len(RowsOf(resp)) : ~HasId(RowsOf(resp)[i]))
        => /\ resp[1].body.status = "FAILED"
           /\ resp[1].body.rows_loaded = None
           /\ resp[1].body.error_details =
                  Some([error_code |-> "NOT_NULL_VIOLATION",
                        error_message |-> "Column 'id' is missing."])

\* The violating row is the last of three, after two rows that pass.
C3_Witness ==
    /\ Final(resp)
    /\ Len(RowsOf(resp)) = 3
    /\ HasId(RowsOf(resp)[1]) /\ HasId(RowsOf(resp)[2])
    /\ "id" \in DOMAIN RowsOf(resp)[3] /\ RowsOf(resp)[3]["id"] = None
    /\ resp[1].body.error_details # None
    /\ resp[1].body.error_details[1].error_code = "NOT_NULL_VIOLATION"

\* C4: a command that breaks both rules is reported NOT_NULL_VIOLATION,
\* never SCHEMA_MISMATCH, also when the schema breaks at a lower index than
\* the id; SCHEMA_MISMATCH is reported only when every row has an id.
C4_RuleOrder ==
    Final(resp) =>
        LET rows == RowsOf(resp)
            idViolated == \E i \in 1..Len(rows) : ~HasId(rows[i])
            details == resp[1].body.error_details
        IN /\ (idViolated /\ MismatchingIndices(rows) # {})
                  => /\ details # None
                     /\ details[1].error_code = "NOT_NULL_VIOLATION"
           /\ (details # None /\ details[1].error_code = "SCHEMA_MISMATCH")
                  => ~idViolated

\* Row 1 breaks the schema, row 2 alone breaks the id rule.
C4_Witness ==
    /\ Final(resp)
    /\ Len(RowsOf(resp)) = 3
    /\ HasId(RowsOf(resp)[1]) /\ HasId(RowsOf(resp)[2])
    /\ ~HasId(RowsOf(resp)[3])
    /\ DOMAIN RowsOf(resp)[2] # DOMAIN RowsOf(resp)[1]
    /\ resp[1].body.error_details[1].error_code = "NOT_NULL_VIOLATION"

\* Python's rendering of a sorted list of the field names other than id.
SortedListText(keys) ==
    CASE keys = {"amount"} -> "['amount']"
      [] keys = {"name"} -> "['name']"
      [] keys = {"amount", "name"} -> "['amount', 'name']"

\* The message of a schema mismatch at index idx with the given differences.
MismatchText(idx, missing, extra) ==
    LET head == "Row at index " \o ToString(idx) \o " has schema mismatch: "
        m == "missing fields: " \o SortedListText(missing)
        x == "extra fields: " \o SortedListText(extra)
    IN CASE missing # {} /\ extra = {} -> head \o m
         [] missing = {} /\ extra # {} -> head \o x
         [] missing # {} /\ extra # {} -> head \o m \o ", " \o x

\* C5: at 8 seconds or more, when every row has an id and some row's field
\* names differ from row 0's, the status is FAILED with SCHEMA_MISMATCH and
\* the message names the lowest mismatching index, then the sorted missing
\* fields and the sorted extra fields, each only when non-empty.
C5_SchemaMismatch ==
    LET rows == RowsOf(resp) IN
    (Final(resp) /\ (\A i \in 1..Len(rows) : HasId(rows[i]))
                 /\ MismatchingIndices(rows) # {})
        => LET idx == Min(MismatchingIndices(rows))
               missing == DOMAIN rows[1] \ DOMAIN rows[idx + 1]
               extra == DOMAIN rows[idx + 1] \ DOMAIN rows[1]
           IN /\ missing # {} \/ extra # {}
              /\ resp[1].body.status = "FAILED"
              /\ resp[1].body.rows_loaded = None
              /\ resp[1].body.error_details =
                     Some([error_code |-> "SCHEMA_MISMATCH",
                           error_message |-> MismatchText(idx, missing, extra)])

\* Rows [{id, name}, {id}]: index 1, missing field name.
C5_Witness ==
    /\ Final(resp)
    /\ Len(RowsOf(resp)) = 2
    /\ DOMAIN RowsOf(resp)[1] = {"id", "name"}
    /\ DOMAIN RowsOf(resp)[2] = {"id"}
    /\ resp[1].body.error_details # None
    /\ resp[1].body.error_details[1] =
           [error_code |-> "SCHEMA_MISMATCH",
            error_message |->
                "Row at index 1 has schema mismatch: missing fields: ['name']"]

\* Two rows mismatch, the first of them both lacking two fields that sort
\* against their order of insertion and, at a higher index, another one.
C5_WitnessLowest ==
    /\ Final(resp)
    /\ Len(RowsOf(resp)) = 3
    /\ DOMAIN RowsOf(resp)[1] = {"id", "name", "amount"}
    /\ DOMAIN RowsOf(resp)[2] = {"id"}
    /\ DOMAIN RowsOf(resp)[3] = {"id", "name"}
    /\ resp[1].body.error_details # None
    /\ resp[1].body.error_details[1].error_message =
           "Row at index 1 has schema mismatch: missing fields: ['amount', 'name']"

\* C6: at 8 seconds or more the status is SUCCESS exactly when every row
\* has a present non-null id and the field names of row 0; it then carries
\* the number of submitted rows and no error details.  SUCCESS is never
\* reported earlier.
C6_Success ==
    Ok(resp) =>
        LET rows == RowsOf(resp)
            clean == /\ \A i \in 1..Len(rows) : HasId(rows[i])
                     /\ \A i \in 1..Len(rows) : DOMAIN rows[i] = DOMAIN rows[1]
        IN /\ resp[1].body.status = "SUCCESS" <=> (resp[1].elapsed >= 8 /\ clean)
           /\ resp[1].body.status = "SUCCESS"
                  => /\ resp[1].body.rows_loaded = Some(Len(rows))
                     /\ resp[1].body.error_details = None

C6_Witness ==
    /\ Final(resp)
    /\ Len(RowsOf(resp)) = 3
    /\ resp[1].body.status = "SUCCESS"
    /\ resp[1].body.rows_loaded = Some(3)
    /\ resp[1].body.error_details = None

\* ---------------------------------------------- properties of the registry
\* C7: a status query for an identifier no record is stored under gets
\* absence from get_job_status and a 404 from monitor_job, a query for a
\* stored identifier gets a status and a 200, and neither changes the
\* registry.
C7_UnknownIdIsNotFound ==
    [][\A job_id \in JobIds :
          monitor_job(job_id) =>
              /\ job_id \notin DOMAIN _JOB_STORE <=> get_job_status(job_id) = None
              /\ job_id \notin DOMAIN _JOB_STORE <=> resp'[1].status_code = 404
              /\ job_id \in DOMAIN _JOB_STORE <=> resp'[1].status_code = 200
              /\ _JOB_STORE' = _JOB_STORE]_vars

\* An unknown identifier was answered while the registry held a job.
C7_Witness ==
    /\ resp = Some([status_code |-> 404, detail |-> "Job ID not found"])
    /\ Cardinality(DOMAIN _JOB_STORE) = 1
    /\ ack # None

\* C8: two status responses for one job at one elapsed time are equal in
\* every field, whatever was submitted or queried between them.
C8_SameElapsedSameStatus ==
    (SameJobTwice /\ mark[1].elapsed = resp[1].elapsed)
        => mark[1].body = resp[1].body

\* Both responses are final, and the other job was submitted at the very
\* second they were taken.
C8_Witness ==
    /\ SameJobTwice
    /\ mark[1].elapsed = resp[1].elapsed
    /\ Final(resp)
    /\ \E other \in DOMAIN _JOB_STORE :
          /\ other # resp[1].path_job_id
          /\ _JOB_STORE[other].start_time = now
          /\ _JOB_STORE[other].command # _JOB_STORE[resp[1].path_job_id].command

\* The fixed message of a transient phase.
PhaseMessage(status) ==
    CASE status = "QUEUED" -> "Job submitted successfully"
      [] status = "RESUMING_WAREHOUSE" -> "Waking up warehouse"
      [] status = "EXECUTING" -> "Running query"

\* C9: below 8 seconds the status is fixed by the identifier and the elapsed
\* time alone: no rows_loaded, no error_details, the message of the phase;
\* two responses at one elapsed time differ in job_id only, whatever the
\* jobs' commands.
C9_TransientIgnoresCommand ==
    /\ (Ok(resp) /\ resp[1].elapsed < 8)
           => resp[1].body =
                  [job_id |-> resp[1].path_job_id,
                   status |-> PhaseTable[resp[1].elapsed + 1],
                   rows_loaded |-> None,
                   error_details |-> None,
                   message |-> PhaseMessage(PhaseTable[resp[1].elapsed + 1])]
    /\ (Ok(mark) /\ Ok(resp) /\ mark[1].elapsed = resp[1].elapsed
                 /\ resp[1].elapsed < 8)
           => [mark[1].body EXCEPT !.job_id = resp[1].body.job_id] = resp[1].body

\* Two jobs that differ in table, load mode, rows and row count, one of them
\* bound to fail, seen at the same elapsed time in the last transient phase.
C9_Witness ==
    /\ Ok(mark) /\ Ok(resp)
    /\ mark[1].path_job_id # resp[1].path_job_id
    /\ mark[1].elapsed = 7 /\ resp[1].elapsed = 7
    /\ LET a == _JOB_STORE[mark[1].path_job_id].command
           b == _JOB_STORE[resp[1].path_job_id].command
       IN /\ a.table_name # b.table_name
          /\ a.load_mode # b.load_mode
          /\ Len(a.rows) # Len(b.rows)
          /\ \E i \in 1..Len(a.rows) : ~HasId(a.rows[i])
          /\ \A i \in 1..Len(b.rows) : HasId(b.rows[i])

\* C10: a submission adds one record under an identifier that was not a key
\* of the registry, holding the current time and the given command, returns
\* that identifier, and leaves every earlier record as it was.
C10_SubmitAddsOneRecord ==
    [][\A command \in ClientCommands :
          trigger_load(command) =>
              \E job_id \in JobIds \ DOMAIN _JOB_STORE :
                  /\ DOMAIN _JOB_STORE' = DOMAIN _JOB_STORE \cup {job_id}
                  /\ _JOB_STORE'[job_id] = [start_time |-> now, command |-> command]
                  /\ \A k \in DOMAIN _JOB_STORE : _JOB_STORE'[k] = _JOB_STORE[k]
                  /\ ack' # None /\ ack'[1].job_id = job_id]_vars

\* A second record was added beside an earlier one, and acknowledged.
C10_Witness ==
    /\ Cardinality(DOMAIN _JOB_STORE) = 2
    /\ ack # None
    /\ \E other \in DOMAIN _JOB_STORE :
          /\ other # ack[1].job_id
          /\ _JOB_STORE[other].start_time < _JOB_STORE[ack[1].job_id].start_time
          /\ _JOB_STORE[other].command # _JOB_STORE[ack[1].job_id].command
    /\ _JOB_STORE[ack[1].job_id].start_time = now

\* ------------------------------------------------ submission, then polling
\* C11: the acknowledgement of a submission carries QUEUED, the fixed
\* message and the identifier the record was just stored under, whatever
\* the payload; a later status query for a submitted identifier is answered
\* with a status, never 404, that echoes the identifier and, below 2
\* seconds, is QUEUED without rows_loaded and error_details.
C11_SubmitThenPoll ==
    [][/\ \A command \in ClientCommands :
             trigger_load(command) =>
                 /\ ack' # None
                 /\ ack'[1].status = "QUEUED"
                 /\ ack'[1].message = "Job submitted successfully"
                 /\ ack'[1].job_id = submitted'[Len(submitted')].job_id
                 /\ ack'[1].job_id \in DOMAIN _JOB_STORE' \ DOMAIN _JOB_STORE
                 /\ _JOB_STORE'[ack'[1].job_id].command = command
       /\ \A i \in 1..Len(submitted) :
             monitor_job(submitted[i].job_id) =>
                 /\ resp'[1].status_code = 200
                 /\ resp'[1].body.job_id = submitted[i].job_id
                 /\ resp'[1].elapsed < 2 =>
                        /\ resp'[1].body.status = "QUEUED"
                        /\ resp'[1].body.rows_loaded = None
                        /\ resp'[1].body.error_details = None]_vars

\* The job just acknowledged, one whose payload lacks id, was polled a
\* second after its submission.
C11_Witness ==
    /\ ack # None
    /\ Ok(resp)
    /\ resp[1].path_job_id = ack[1].job_id
    /\ resp[1].body.job_id = ack[1].job_id
    /\ resp[1].elapsed = 1
    /\ resp[1].body.status = "QUEUED"
    /\ \E i \in 1..Len(RowsOf(resp)) : ~HasId(RowsOf(resp)[i])

\* ----------------------------------------------------- the client's schema
\* C12: every status monitor_job answers for a submitted job validates
\* against the client-side JobStatus schema of the test suite: its status is
\* one of QUEUED, RUNNING, SUCCESS, FAILED and its message is a string.
C12_ValidatesClientSchema ==
    Ok(resp) => ClientJobStatusValid(resp[1].body)

\* ------------------------------------------------------- terminal statuses
\* C13: once a job was reported SUCCESS or FAILED, every later response for
\* it carries the same status, rows_loaded, error code and error message.
C13_TerminalIsStable ==
    (SameJobTwice /\ Terminal(mark[1].body.status))
        => /\ mark[1].elapsed <= resp[1].elapsed
           /\ resp[1].body.status = mark[1].body.status
           /\ resp[1].body.rows_loaded = mark[1].body.rows_loaded
           /\ resp[1].body.error_details = mark[1].body.error_details

\* A job reported FAILED at 8 seconds and again a second later, after the
\* other job was submitted.
C13_Witness ==
    /\ SameJobTwice
    /\ mark[1].elapsed = 8 /\ resp[1].elapsed = 9
    /\ mark[1].body.status = "FAILED"
    /\ resp[1].body.error_details # None
    /\ resp[1].body.error_details[1].error_code = "SCHEMA_MISMATCH"
    /\ Cardinality(DOMAIN _JOB_STORE) = 2

\* C14: a status query, for a stored identifier or not, at any elapsed
\* time, leaves the registry as it was: the same keys, start times and
\* commands, and nothing but a start time and a command in a record.
C14_QueryIsReadOnly ==
    [][\A job_id \in JobIds :
          monitor_job(job_id) =>
              /\ DOMAIN _JOB_STORE' = DOMAIN _JOB_STORE
              /\ \A k \in DOMAIN _JOB_STORE :
                    /\ DOMAIN _JOB_STORE'[k] = {"start_time", "command"}
                    /\ _JOB_STORE'[k].start_time = _JOB_STORE[k].start_time
                    /\ _JOB_STORE'[k].command = _JOB_STORE[k].command]_vars

\* The rule evaluator has run for the one stored job, whose record is still
\* what its submission wrote.
C14_Witness ==
    /\ Final(resp)
    /\ resp[1].body.status = "SUCCESS"
    /\ Cardinality(DOMAIN _JOB_STORE) = 1
    /\ \A k \in DOMAIN _JOB_STORE :
          _JOB_STORE[k] = [start_time |-> submitted[1].start_time,
                           command |-> submitted[1].command]

\* ------------------------------------------------- the registry over time
\* The submission the identifier job_id was returned by.
SubmissionOf(job_id) ==
    submitted[CHOOSE i \in 1..Len(submitted) : submitted[i].job_id = job_id]

\* Rows that pass both data-quality rules.
Clean(rows) ==
    /\ \A i \in 1..Len(rows) : HasId(rows[i])
    /\ \A i \in 1..Len(rows) : DOMAIN rows[i] = DOMAIN rows[1]

\* C15: in any interleaving of submissions and queries, after n submissions
\* returned the registry holds n records under n pairwise distinct
\* identifiers, each with the command and start time of its own submission,
\* and a status is derived from the command of the job asked for.
C15_NoSubmissionLost ==
    /\ Cardinality(DOMAIN _JOB_STORE) = Len(submitted)
    /\ \A i, j \in 1..Len(submitted) :
          i # j => submitted[i].job_id # submitted[j].job_id
    /\ \A i \in 1..Len(submitted) :
          /\ submitted[i].job_id \in DOMAIN _JOB_STORE
          /\ _JOB_STORE[submitted[i].job_id] =
                 [start_time |-> submitted[i].start_time,
                  command |-> submitted[i].command]
    /\ Final(resp) =>
          (resp[1].body.status = "SUCCESS"
              <=> Clean(SubmissionOf(resp[1].path_job_id).command.rows))

\* Two submissions in the same second, a clean one and one that is not; the
\* clean one was reported SUCCESS.
C15_Witness ==
    /\ Len(submitted) = 2
    /\ submitted[1].start_time = submitted[2].start_time
    /\ Final(resp)
    /\ resp[1].body.status = "SUCCESS"
    /\ \E i \in 1..2 :
          /\ submitted[i].job_id # resp[1].path_job_id
          /\ ~Clean(submitted[i].command.rows)

\* C16: in every status answered for a stored job, rows_loaded is present
\* exactly when the status is SUCCESS, error_details exactly when it is
\* FAILED, then with code NOT_NULL_VIOLATION or SCHEMA_MISMATCH, and job_id
\* is the identifier asked for.
C16_OptionalFields ==
    Ok(resp) =>
        LET body == resp[1].body
        IN /\ body.rows_loaded # None <=> body.status = "SUCCESS"
           /\ body.error_details # None <=> body.status = "FAILED"
           /\ body.error_details # None =>
                  body.error_details[1].error_code
                      \in {"NOT_NULL_VIOLATION", "SCHEMA_MISMATCH"}
           /\ body.job_id = resp[1].path_job_id

\* A FAILED status of the second identifier, and a SUCCESS of the first
\* before it.
C16_Witness ==
    /\ Ok(resp) /\ Ok(mark)
    /\ resp[1].path_job_id = "uuid-2" /\ resp[1].body.job_id = "uuid-2"
    /\ resp[1].body.status = "FAILED"
    /\ resp[1].body.rows_loaded = None
    /\ resp[1].body.error_details # None
    /\ mark[1].body.job_id = "uuid-1"
    /\ mark[1].body.status = "SUCCESS"
    /\ mark[1].body.rows_loaded = Some(2)
    /\ mark[1].body.error_details = None

\* C17: records are written once and never evicted: every identifier
\* submit_job returned stays a key of the registry with the start time and
\* the command of its submission, and no step changes or drops a record.
C17_RecordsAreWriteOnce ==
    /\ [](\A i \in 1..Len(submitted) :
             /\ submitted[i].job_id \in DOMAIN _JOB_STORE
             /\ _JOB_STORE[submitted[i].job_id].start_time = submitted[i].start_time
             /\ _JOB_STORE[submitted[i].job_id].command = submitted[i].command)
    /\ [][\A k \in DOMAIN _JOB_STORE :
             k \in DOMAIN _JOB_STORE' /\ _JOB_STORE'[k] = _JOB_STORE[k]]_vars

\* The first record is still stored when the clock has run out, after a
\* second submission and after queries that reached the final state.
C17_Witness ==
    /\ Len(submitted) = 2
    /\ now = MaxTime
    /\ submitted[1].start_time = 0
    /\ submitted[2].start_time > 0
    /\ _JOB_STORE[submitted[1].job_id].start_time = 0
    /\ Final(resp) /\ Final(mark)
    /\ resp[1].path_job_id = submitted[1].job_id

\* ----------------------------------------------------------- termination
\* C18: while time advances and the job is polled, a submitted job is
\* eventually reported SUCCESS or FAILED, by clock and query steps alone
\* (here: a job submitted early enough for the clock to reach its eighth
\* second); and no job is reported terminal before 8 seconds have elapsed.
C18_EventuallyTerminal ==
    /\ [](Ok(resp) /\ Terminal(resp[1].body.status) => resp[1].elapsed >= 8)
    /\ \A job_id \in JobIds :
          (job_id \in DOMAIN _JOB_STORE
              /\ _JOB_STORE[job_id].start_time + 8 <= MaxTime)
          ~> (/\ Ok(resp)
              /\ resp[1].path_job_id = job_id
              /\ Terminal(resp[1].body.status))

\* The second of two jobs is reported terminal at its eighth second, the
\* last one the clock reaches.
C18_Witness ==
    /\ Len(submitted) = 2
    /\ Ok(resp)
    /\ resp[1].path_job_id = submitted[2].job_id
    /\ resp[1].elapsed = 8 /\ Terminal(resp[1].body.status)
    /\ submitted[2].start_time + 8 = MaxTime
    /\ now = MaxTime

====
